---- MODULE Spec2Model ----
(***************************************************************************)
(* A model of the Vigenere cipher (src/Cipher/main.py) and of the expense  *)
(* tracker's menu loop (src/Expense Tracker/main.py).                      *)
(*                                                                         *)
(* Text is a sequence of Latin-1 code points (0..255): "a" is 97, "z" 122, *)
(* "A" 65, " " 32, "1" 49, e-acute 233, E-acute 201.  Python's str methods *)
(* are modelled on that range as CPython computes them.                    *)
(***************************************************************************)
EXTENDS Integers, Sequences, FiniteSets, TLC

VARIABLES
    ALPHABET,        \* module global, main.py line 21
    ENCRYPTED_TEXT,  \* module global, main.py line 17
    DECRYPTION_KEY,  \* module global, main.py line 18
    frame,           \* call id -> the local variables of one vigenere() call
    args,            \* call id -> the arguments the caller passed
    caller,          \* the caller's own variables (main(), lines 120-135)
    expenses,        \* Expense Tracker: the list of main(), line 174
    tpc,             \* Expense Tracker: where main() waits for input
    amount,          \* Expense Tracker: the local amount of main(), line 183
    out              \* Expense Tracker: what was printed last

globals == <<ALPHABET, ENCRYPTED_TEXT, DECRYPTION_KEY>>
trackerVars == <<expenses, tpc, amount, out>>

vars == <<ALPHABET, ENCRYPTED_TEXT, DECRYPTION_KEY, frame, args, caller,
          expenses, tpc, amount, out>>

----------------------------------------------------------------------------
(* Bounds of the model.                                                    *)

MaxMsgLen == 3
MaxKeyLen == 2
NumCalls == 2

----------------------------------------------------------------------------
(* Python's str methods on Latin-1 text.                                   *)

\* str.isalpha() of one character (Unicode categories Lu, Ll, Lo in Latin-1).
IsAlphaChar(c) ==
    c \in (65..90) \cup (97..122) \cup {170, 181, 186}
          \cup (192..214) \cup (216..246) \cup (248..255)

\* str.isalpha() of a string: non-empty and every character alphabetic.
IsAlpha(s) == Len(s) > 0 /\ \A i \in 1..Len(s) : IsAlphaChar(s[i])

\* str.lower() of one character.
LowerChar(c) ==
    IF c \in (65..90) \cup (192..214) \cup (216..222) THEN c + 32 ELSE c

\* str.lower()
Lower(s) == [i \in 1..Len(s) |-> LowerChar(s[i])]

\* str.find(c): the lowest 0-based index of c in s, or -1.
Find(s, c) ==
    IF \E i \in 1..Len(s) : s[i] = c
    THEN (CHOOSE i \in 1..Len(s) : s[i] = c /\ \A j \in 1..(i - 1) : s[j] # c) - 1
    ELSE -1

\* The literals of lines 17, 18 and 21.
AlphabetLiteral == [i \in 1..26 |-> 96 + i]
EncryptedTextLiteral ==
    <<109, 114, 116, 116, 97, 113, 114, 104, 107, 110, 115, 119, 32, 105, 104,
      32, 112, 117, 103, 103, 114, 117, 114>>
DecryptionKeyLiteral == <<104, 97, 112, 112, 121, 99, 111, 100, 105, 110, 103>>

----------------------------------------------------------------------------
(* One call of vigenere(message, key, direction), lines 24-75.             *)
(* pc: "validate" (line 44), "init" (line 49), "loop" (line 53),           *)
(*     "returned" (line 75), "raised" (an exception left the function),    *)
(*     "idle" (no call in this slot).                                      *)

NoFrame ==
    [pc |-> "idle", message |-> <<>>, key |-> <<>>, direction |-> 1,
     chars |-> <<>>, pos |-> 0, key_index |-> 0, final_message |-> <<>>,
     last |-> "none", char |-> 0, key_char |-> 0, offset |-> 0, index |-> 0,
     new_index |-> 0, error |-> "none"]

\* The frame on entry: the parameters bound, nothing else assigned yet.
NewFrame(message, key, direction) ==
    [NoFrame EXCEPT !.pc = "validate", !.message = message, !.key = key,
                    !.direction = direction]

\* Lines 44-47: the two checks of the key.
DoValidate(fr) ==
    IF Len(fr.key) = 0
    THEN [fr EXCEPT !.pc = "raised", !.error = "Key cannot be empty"]
    ELSE IF ~IsAlpha(fr.key)
    THEN [fr EXCEPT !.pc = "raised",
                    !.error = "Key must contain only alphabetic characters"]
    ELSE [fr EXCEPT !.pc = "init"]

\* Lines 49-53: key = key.lower(), the cursor, the buffer, and the iterator
\* over message.lower().
DoInit(fr) ==
    [fr EXCEPT !.pc = "loop", !.key = Lower(fr.key), !.key_index = 0,
               !.final_message = <<>>, !.chars = Lower(fr.message), !.pos = 0]

\* Line 70 without its modulo: the shifted position left as the bare sum.
NewIndexNoWrap(index, offset, direction) == index + offset * direction

\* Line 70.
NewIndex(index, offset, direction) == (index + offset * direction) % Len(ALPHABET)

\* Lines 55-56: a character that is not alphabetic is appended as it is.
DoCopy(fr) ==
    LET char == fr.chars[fr.pos + 1]
    IN [fr EXCEPT !.pos = fr.pos + 1, !.char = char, !.last = "copied",
                  !.final_message = Append(fr.final_message, char)]

\* Lines 57-73: an alphabetic character is shifted by the key character under
\* the cursor ki.  ALPHABET.index raises ValueError for a key character that
\* is not in ALPHABET; ALPHABET[new_index] raises IndexError outside -26..25
\* and counts from the end for a negative index.
DoShift(fr, ki) ==
    LET char == fr.chars[fr.pos + 1]
        key_char == fr.key[(ki % Len(fr.key)) + 1]
        offset == Find(ALPHABET, key_char)
        index == Find(ALPHABET, char)
        new_index == NewIndex(index, offset, fr.direction)
        n == Len(ALPHABET)
        read == [fr EXCEPT !.pos = fr.pos + 1, !.char = char,
                           !.key_char = key_char, !.key_index = ki + 1]
    IN IF offset = -1
       THEN [read EXCEPT !.pc = "raised", !.last = "none",
                         !.error = "substring not found"]
       ELSE IF new_index < -n \/ new_index >= n
       THEN [read EXCEPT !.pc = "raised", !.last = "none", !.offset = offset,
                         !.index = index, !.new_index = new_index,
                         !.error = "string index out of range"]
       ELSE [read EXCEPT !.last = "shifted", !.offset = offset,
                         !.index = index, !.new_index = new_index,
                         !.final_message =
                             Append(fr.final_message, ALPHABET[(new_index % n) + 1])]

\* Line 75.
DoReturn(fr) == [fr EXCEPT !.pc = "returned"]

\* The next character of the loop is alphabetic (line 55).
AtAlpha(fr) == fr.pos < Len(fr.chars) /\ IsAlphaChar(fr.chars[fr.pos + 1])
AtOther(fr) == fr.pos < Len(fr.chars) /\ ~IsAlphaChar(fr.chars[fr.pos + 1])

\* One step of a call run on its own.
StepFrame(fr) ==
    CASE fr.pc = "validate" -> DoValidate(fr)
      [] fr.pc = "init" -> DoInit(fr)
      [] fr.pc = "loop" /\ AtAlpha(fr) -> DoShift(fr, fr.key_index)
      [] fr.pc = "loop" /\ AtOther(fr) -> DoCopy(fr)
      [] fr.pc = "loop" /\ fr.pos >= Len(fr.chars) -> DoReturn(fr)
      [] OTHER -> fr

\* vigenere(message, key, direction) run to its end, alone.
RECURSIVE RunFrame(_)
RunFrame(fr) ==
    IF fr.pc \in {"returned", "raised", "idle"} THEN fr ELSE RunFrame(StepFrame(fr))

vigenere(message, key, direction) == RunFrame(NewFrame(message, key, direction))

\* What the caller sees of a finished call: the value or the exception.
Outcome(fr) ==
    IF fr.pc = "raised" THEN [raised |-> TRUE, value |-> <<>>, error |-> fr.error]
    ELSE [raised |-> FALSE, value |-> fr.final_message, error |-> "none"]

\* Lines 78-103.
encrypt(message, key) == Outcome(vigenere(message, key, 1))
decrypt(message, key) == Outcome(vigenere(message, key, -1))

----------------------------------------------------------------------------
(* The steps of the calls, as actions.                                     *)

\* A cursor kept in one place for all calls, as a module global would be.
KeyIndexShared(p) == frame[1].key_index

\* The cursor a call reads and writes: its own local key_index (line 50).
KeyIndexOf(p) == frame[p].key_index

Validate(p) ==
    /\ frame[p].pc = "validate"
    /\ frame' = [frame EXCEPT ![p] = DoValidate(frame[p])]
    /\ UNCHANGED <<globals, args, caller, trackerVars>>

InitLocals(p) ==
    /\ frame[p].pc = "init"
    /\ frame' = [frame EXCEPT ![p] = DoInit(frame[p])]
    /\ UNCHANGED <<globals, args, caller, trackerVars>>

LoopCopy(p) ==
    /\ frame[p].pc = "loop"
    /\ AtOther(frame[p])
    /\ frame' = [frame EXCEPT ![p] = DoCopy(frame[p])]
    /\ UNCHANGED <<globals, args, caller, trackerVars>>

LoopShift(p) ==
    /\ frame[p].pc = "loop"
    /\ AtAlpha(frame[p])
    /\ frame' = [frame EXCEPT ![p] = DoShift(frame[p], KeyIndexOf(p))]
    /\ UNCHANGED <<globals, args, caller, trackerVars>>

Return(p) ==
    /\ frame[p].pc = "loop"
    /\ frame[p].pos >= Len(frame[p].chars)
    /\ frame' = [frame EXCEPT ![p] = DoReturn(frame[p])]
    /\ UNCHANGED <<globals, args, caller, trackerVars>>

----------------------------------------------------------------------------
(* The caller: main() decrypts, then encrypts the result with the same key *)
(* and compares (lines 120-135).  The same two-call sequence with          *)
(* direction 1 first is the round trip encrypt-then-decrypt.               *)

\* Line 122 (decrypt(ENCRYPTED_TEXT, DECRYPTION_KEY)), or encrypt() first.
CallFirst ==
    /\ caller.pc = "start"
    /\ frame' = [frame EXCEPT ![1] = NewFrame(caller.message, caller.key, caller.direction)]
    /\ args' = [args EXCEPT ![1] = [message |-> caller.message, key |-> caller.key,
                                    direction |-> caller.direction]]
    /\ caller' = [caller EXCEPT !.pc = "first"]
    /\ UNCHANGED <<globals, trackerVars>>

\* Lines 122-129: the first result is kept and passed to the opposite
\* direction with the same key.
CallSecond ==
    /\ caller.pc = "first"
    /\ frame[1].pc = "returned"
    /\ LET result == frame[1].final_message
       IN /\ caller' = [caller EXCEPT !.pc = "second", !.first = result]
          /\ frame' = [frame EXCEPT ![1] = NewFrame(result, caller.key, -caller.direction)]
          /\ args' = [args EXCEPT ![1] = [message |-> result, key |-> caller.key,
                                          direction |-> -caller.direction]]
    /\ UNCHANGED <<globals, trackerVars>>

\* Lines 129-132: the second result and the comparison with the original.
Compare ==
    /\ caller.pc = "second"
    /\ frame[1].pc = "returned"
    /\ caller' = [caller EXCEPT !.pc = "done", !.second = frame[1].final_message,
                                !.match = (frame[1].final_message = caller.message)]
    /\ frame' = [frame EXCEPT ![1] = NoFrame]
    /\ UNCHANGED <<globals, args, trackerVars>>

\* Lines 134-135: except ValueError.
CatchError ==
    /\ caller.pc \in {"first", "second"}
    /\ frame[1].pc = "raised"
    /\ caller' = [caller EXCEPT !.pc = "failed", !.error = frame[1].error]
    /\ frame' = [frame EXCEPT ![1] = NoFrame]
    /\ UNCHANGED <<globals, args, trackerVars>>

----------------------------------------------------------------------------
(* Inputs.                                                                 *)

\* Sequences over S of length at most n.
SeqUpTo(S, n) == UNION {[1..k -> S] : k \in 0..n}

\* "a", "Z", " ", e-acute
MsgChars == {97, 90, 32, 233}
\* "a", "B", "1", e-acute
KeyChars == {97, 66, 49, 233}

Messages == SeqUpTo(MsgChars, MaxMsgLen)
Keys == SeqUpTo(KeyChars, MaxKeyLen)

\* The calls the specification names: the demo of main(), and the examples of
\* wrap-around and key cycling.
Scenarios ==
    { [message |-> EncryptedTextLiteral, key |-> DecryptionKeyLiteral, direction |-> -1],
      [message |-> <<122>>, key |-> <<98>>, direction |-> 1],
      [message |-> <<97>>, key |-> <<98>>, direction |-> -1],
      [message |-> <<97, 97, 97, 97>>, key |-> <<98, 99>>, direction |-> 1],
      [message |-> <<97, 32, 98>>, key |-> <<97, 98>>, direction |-> 1],
      [message |-> <<97, 98>>, key |-> <<97, 98>>, direction |-> 1] }

Inputs ==
    [message : Messages, key : Keys, direction : {1, -1}] \cup Scenarios

NoArgs == [message |-> <<>>, key |-> <<>>, direction |-> 1]

InitGlobals ==
    /\ ALPHABET = AlphabetLiteral
    /\ ENCRYPTED_TEXT = EncryptedTextLiteral
    /\ DECRYPTION_KEY = DecryptionKeyLiteral

\* No caller of the cipher, and no tracker, is running.
NoCaller ==
    [pc |-> "off", message |-> <<>>, key |-> <<>>, direction |-> 1,
     first |-> <<>>, second |-> <<>>, match |-> FALSE, error |-> "none"]

NoFloat == [kind |-> "num", n |-> 0]
NoOutput == [kind |-> "none", total |-> NoFloat, items |-> <<>>, count |-> 0]

TrackerOff ==
    /\ expenses = <<>>
    /\ tpc = "off"
    /\ amount = NoFloat
    /\ out = NoOutput

Init ==
    /\ InitGlobals
    /\ frame = [p \in {1} |-> NoFrame]
    /\ args = [p \in {1} |-> NoArgs]
    /\ \E in \in Inputs :
          caller = [NoCaller EXCEPT !.pc = "start", !.message = in.message,
                                    !.key = in.key, !.direction = in.direction]
    /\ TrackerOff

Next ==
    \/ CallFirst
    \/ CallSecond
    \/ Compare
    \/ CatchError
    \/ \E p \in DOMAIN frame : Validate(p)
    \/ \E p \in DOMAIN frame : InitLocals(p)
    \/ \E p \in DOMAIN frame : LoopCopy(p)
    \/ \E p \in DOMAIN frame : LoopShift(p)
    \/ \E p \in DOMAIN frame : Return(p)

Spec == Init /\ [][Next]_vars

----------------------------------------------------------------------------
(* Several callers at once: NumCalls calls of vigenere(), each started by  *)
(* its own caller, their steps interleaved in any order.                   *)

\* encrypt("aa", "ab"), decrypt("z a", "B"), a key that fails validation
\* ("1"), and a key that passes it and fails in the loop (e-acute).
ConcInputs ==
    { [message |-> <<97, 97>>, key |-> <<97, 98>>, direction |-> 1],
      [message |-> <<122, 32, 97>>, key |-> <<66>>, direction |-> -1],
      [message |-> <<97>>, key |-> <<49>>, direction |-> 1],
      [message |-> <<32, 97>>, key |-> <<233>>, direction |-> 1] }

InitConc ==
    /\ InitGlobals
    /\ args \in [1..NumCalls -> ConcInputs]
    /\ frame = [p \in 1..NumCalls |->
                  NewFrame(args[p].message, args[p].key, args[p].direction)]
    /\ caller = NoCaller
    /\ TrackerOff

NextConc ==
    \/ \E p \in DOMAIN frame : Validate(p)
    \/ \E p \in DOMAIN frame : InitLocals(p)
    \/ \E p \in DOMAIN frame : LoopCopy(p)
    \/ \E p \in DOMAIN frame : LoopShift(p)
    \/ \E p \in DOMAIN frame : Return(p)

SpecConc == InitConc /\ [][NextConc]_vars

----------------------------------------------------------------------------
(* The claims about the cipher.                                            *)

\* The plaintext the module docstring gives for the sample (line 11):
\* "congratulations in success".
DocstringPlaintext ==
    <<99, 111, 110, 103, 114, 97, 116, 117, 108, 97, 116, 105, 111, 110, 115,
      32, 105, 110, 32, 115, 117, 99, 99, 101, 115, 115>>

\* One of the 26 letters a-z.
IsLetter(c) == c \in 97..122

\* A valid key: non-empty, every character one of a-z in either case.
ValidKey(k) ==
    Len(k) > 0 /\ \A i \in 1..Len(k) : k[i] \in (65..90) \cup (97..122)

\* The number of letters a-z among the first n characters of s.
RECURSIVE LetterCount(_, _)
LetterCount(s, n) ==
    IF n = 0 THEN 0
    ELSE LetterCount(s, n - 1) + (IF IsLetter(s[n]) THEN 1 ELSE 0)

\* The letter n places after (d = 1) or before (d = -1) letter c, going round
\* from z to a and from a to z.
RECURSIVE Rotate(_, _, _)
Rotate(c, n, d) ==
    IF n = 0 THEN c
    ELSE Rotate(IF d = 1 THEN (IF c = 122 THEN 97 ELSE c + 1)
                         ELSE (IF c = 97 THEN 122 ELSE c - 1), n - 1, d)

\* The call in slot 1 has ended, by return or by exception.
Ended(fr) == fr.pc \in {"returned", "raised"}

\* C1: for every valid key K and every message M, encrypting M with K and
\* decrypting the result with K completes and gives lowercase(M).
C1_RoundTrip ==
    (caller.pc \in {"done", "failed"} /\ caller.direction = 1 /\ ValidKey(caller.key))
        => (caller.pc = "done" /\ caller.second = Lower(caller.message))

\* C2: decrypt("mrttaqrhknsw ih puggrur", "happycoding") returns exactly
\* "congratulations in success".
C2_ReferenceScenario ==
    (/\ caller.message = ENCRYPTED_TEXT
     /\ caller.key = DECRYPTION_KEY
     /\ caller.direction = -1
     /\ caller.pc \in {"second", "done", "failed"})
        => (caller.pc # "failed" /\ caller.first = DocstringPlaintext)

\* C3: for every valid key K and every message C (the demo's sample among
\* them), decrypting C with K and encrypting the result with K completes and
\* gives lowercase(C), so the demo's comparison is true.
C3_Acceptance ==
    (caller.pc \in {"done", "failed"} /\ caller.direction = -1 /\ ValidKey(caller.key))
        => /\ caller.pc = "done"
           /\ caller.second = Lower(caller.message)
           /\ (caller.message = ENCRYPTED_TEXT => caller.match)

\* C4: for every message and both directions, a call ends with an error
\* exactly when its key is empty or has a character outside a-z (in either
\* case).
C4_KeyValidation ==
    Ended(frame[1]) => (frame[1].pc = "raised" <=> ~ValidKey(args[1].key))

\* C5: a call that fails fails before the loop has processed a character:
\* nothing was appended to the result before the error.
C5_FailFast ==
    frame[1].pc = "raised" => frame[1].final_message = <<>>

\* C6: for every valid key, both directions and every message, the result
\* has the length of the lowercase message and every character of it that is
\* not one of a-z stands unchanged at its position.
C6_PassThrough ==
    (frame[1].pc = "returned" /\ ValidKey(args[1].key))
        => LET m == Lower(args[1].message)
               r == frame[1].final_message
           IN /\ Len(r) = Len(m)
              /\ \A i \in 1..Len(m) : ~IsLetter(m[i]) => r[i] = m[i]

\* C7: under a valid key the cursor equals the number of letters a-z
\* processed so far, and the letter just shifted was shifted by
\* key[n mod len(key)], n the number of letters before it; so
\* encrypt("aaaa", "bc") = "bcbc" and encrypt("a b", "ab") = "a c".
C7_KeyCursor ==
    LET fr == frame[1]
        k == Lower(args[1].key)
    IN /\ (fr.pc \in {"loop", "returned"} /\ ValidKey(args[1].key))
            => /\ fr.key_index = LetterCount(fr.chars, fr.pos)
               /\ fr.last = "shifted" =>
                     fr.key_char = k[(LetterCount(fr.chars, fr.pos - 1) % Len(k)) + 1]
       /\ (Ended(fr) /\ args[1] = [message |-> <<97, 97, 97, 97>>,
                                   key |-> <<98, 99>>, direction |-> 1])
            => (fr.pc = "returned" /\ fr.final_message = <<98, 99, 98, 99>>)
       /\ (Ended(fr) /\ args[1] = [message |-> <<97, 32, 98>>,
                                   key |-> <<97, 98>>, direction |-> 1])
            => (fr.pc = "returned" /\ fr.final_message = <<97, 32, 99>>)

\* C8: whenever a letter c is shifted by a key letter k in direction d, the
\* computed index is (pos(c) + pos(k) * d) mod 26, lies in 0..25, and the
\* letter appended is the one pos(k) places round the alphabet from c;
\* encrypt("z", "b") = "a" and decrypt("a", "b") = "z".
C8_WrapAround ==
    LET fr == frame[1]
    IN /\ fr.last = "shifted" => fr.new_index \in 0..25
       /\ (fr.last = "shifted" /\ IsLetter(fr.char) /\ IsLetter(fr.key_char))
            => /\ fr.new_index =
                     ((fr.char - 97) + (fr.key_char - 97) * fr.direction) % 26
               /\ fr.final_message[Len(fr.final_message)] =
                     Rotate(fr.char, fr.key_char - 97, fr.direction)
       /\ (Ended(fr) /\ args[1] = [message |-> <<122>>, key |-> <<98>>, direction |-> 1])
            => (fr.pc = "returned" /\ fr.final_message = <<97>>)
       /\ (Ended(fr) /\ args[1] = [message |-> <<97>>, key |-> <<98>>, direction |-> -1])
            => (fr.pc = "returned" /\ fr.final_message = <<122>>)

\* decrypt("a", "b") has returned "z": the sum 0 - 1 fell below "a".
C8_Witness ==
    /\ frame[1].pc = "returned"
    /\ args[1] = [message |-> <<97>>, key |-> <<98>>, direction |-> -1]
    /\ frame[1].last = "shifted"
    /\ frame[1].index - frame[1].offset < 0
    /\ frame[1].final_message = <<122>>

\* Every call, at every step, still ends as it ends when run alone.
C9_SameAsAlone ==
    \A p \in DOMAIN frame :
        RunFrame(frame[p]) = vigenere(args[p].message, args[p].key, args[p].direction)

\* A step writes the local variables of one call only, and no global.
C9_OneCallPerStep ==
    /\ \E p \in DOMAIN frame : \A q \in DOMAIN frame \ {p} : frame'[q] = frame[q]
    /\ ALPHABET' = ALPHABET
    /\ ENCRYPTED_TEXT' = ENCRYPTED_TEXT
    /\ DECRYPTION_KEY' = DECRYPTION_KEY
    /\ args' = args

\* C9: with the steps of several calls interleaved in any order, a step of
\* one call writes no variable of another call and no global, and each call
\* returns (or raises) exactly what it does when run alone.
C9_Independent == []C9_SameAsAlone /\ [][C9_OneCallPerStep]_vars

\* Two calls are both inside their loops, each one letter in, each with
\* letters still to shift.
C9_Witness ==
    /\ Cardinality(DOMAIN frame) >= 2
    /\ \A p \in {1, 2} :
          /\ frame[p].pc = "loop"
          /\ frame[p].key_index = 1
          /\ AtAlpha(frame[p])

----------------------------------------------------------------------------
(* The expense tracker, src/Expense Tracker/main.py.                       *)
(* A float is [kind |-> "num", n |-> an integer], [kind |-> "nan", n |-> 0]*)
(* or [kind |-> "inf", n |-> 1 or -1 (the sign)].                          *)

MaxExpenses == 2

\* Lines 16-20: "1" .. "5".
OPTION_ADD == <<49>>
OPTION_LIST == <<50>>
OPTION_TOTAL == <<51>>
OPTION_FILTER == <<52>>
OPTION_EXIT == <<53>>

\* str.isspace() of one Latin-1 character.
IsSpaceChar(c) == c \in (9..13) \cup (28..32) \cup {133, 160}

\* str.strip(): leading and trailing whitespace removed.
RECURSIVE LStrip(_)
LStrip(s) == IF Len(s) > 0 /\ IsSpaceChar(Head(s)) THEN LStrip(Tail(s)) ELSE s
RECURSIVE RStrip(_)
RStrip(s) ==
    IF Len(s) > 0 /\ IsSpaceChar(s[Len(s)]) THEN RStrip(SubSeq(s, 1, Len(s) - 1)) ELSE s
Strip(s) == RStrip(LStrip(s))

\* The value of a string of decimal digits.
RECURSIVE DigitsValue(_)
DigitsValue(s) ==
    IF Len(s) = 0 THEN 0
    ELSE 10 * DigitsValue(SubSeq(s, 1, Len(s) - 1)) + (s[Len(s)] - 48)

\* float(s) for s over digits, signs, whitespace and letters (no ".", "e" or
\* "_"): whitespace stripped, one optional sign, then decimal digits, "nan",
\* "inf" or "infinity" in any case; anything else raises ValueError (ok is
\* FALSE).
ParseFloat(s) ==
    LET t == Strip(s)
        signed == Len(t) > 0 /\ t[1] \in {43, 45}
        sign == IF Len(t) > 0 /\ t[1] = 45 THEN -1 ELSE 1
        body == Lower(IF signed THEN Tail(t) ELSE t)
    IN IF Len(body) > 0 /\ \A i \in 1..Len(body) : body[i] \in 48..57
       THEN [ok |-> TRUE, val |-> [kind |-> "num", n |-> sign * DigitsValue(body)]]
       ELSE IF body = <<110, 97, 110>>
       THEN [ok |-> TRUE, val |-> [kind |-> "nan", n |-> 0]]
       ELSE IF body \in {<<105, 110, 102>>, <<105, 110, 102, 105, 110, 105, 116, 121>>}
       THEN [ok |-> TRUE, val |-> [kind |-> "inf", n |-> sign]]
       ELSE [ok |-> FALSE, val |-> NoFloat]

\* Line 120: amount <= 0 on floats; every comparison with nan is False.
LeZero(x) == (x.kind = "num" /\ x.n <= 0) \/ (x.kind = "inf" /\ x.n < 0)

\* Float addition.
FloatAdd(x, y) ==
    IF x.kind = "nan" \/ y.kind = "nan" THEN [kind |-> "nan", n |-> 0]
    ELSE IF x.kind = "inf" /\ y.kind = "inf"
    THEN (IF x.n = y.n THEN x ELSE [kind |-> "nan", n |-> 0])
    ELSE IF x.kind = "inf" THEN x
    ELSE IF y.kind = "inf" THEN y
    ELSE [kind |-> "num", n |-> x.n + y.n]

\* Lines 71-83: sum(map(amount, expenses)), from 0.
RECURSIVE total_expenses(_)
total_expenses(es) ==
    IF Len(es) = 0 THEN [kind |-> "num", n |-> 0]
    ELSE FloatAdd(total_expenses(SubSeq(es, 1, Len(es) - 1)), es[Len(es)].amount)

\* Lines 86-105: the entries whose category equals the given one, case ignored.
filter_expenses_by_category(es, category) ==
    LET Same(e) == Lower(e.category) = Lower(category)
    IN SelectSeq(es, Same)

\* What the user may type at "Enter your choice": "1".." 5", " 1", "6", "".
ChoiceInputs ==
    {<<49>>, <<50>>, <<51>>, <<52>>, <<53>>, <<32, 49>>, <<54>>, <<>>}
\* At "Enter amount: $": "5", " 12", "0", "-3", "x", "", "nan", "inf", "-inf".
AmountInputs ==
    {<<53>>, <<32, 49, 50>>, <<48>>, <<45, 51>>, <<120>>, <<>>,
     <<110, 97, 110>>, <<105, 110, 102>>, <<45, 105, 110, 102>>}
\* At "Enter category": "a", " B ", "", " ".
CategoryInputs == {<<97>>, <<32, 66, 32>>, <<>>, <<32>>}

Printed(kind) == [NoOutput EXCEPT !.kind = kind]

\* Lines 179-185: choice "1"; get_valid_amount() is entered.
ChooseAdd ==
    /\ tpc = "menu"
    /\ Len(expenses) < MaxExpenses
    /\ \E line \in ChoiceInputs : Strip(line) = OPTION_ADD
    /\ tpc' = "amount"
    /\ out' = Printed("menu")
    /\ UNCHANGED <<globals, frame, args, caller, expenses, amount>>

\* Lines 108-125: one round of get_valid_amount(): a line that float()
\* rejects, or an amount <= 0, prompts again; any other amount is returned.
EnterAmount ==
    /\ tpc = "amount"
    /\ \E line \in AmountInputs :
          LET r == ParseFloat(line)
          IN IF ~r.ok
             THEN /\ out' = Printed("Error: Please enter a valid number.")
                  /\ UNCHANGED <<tpc, amount>>
             ELSE IF LeZero(r.val)
             THEN /\ out' = Printed("Error: Amount must be greater than zero.")
                  /\ UNCHANGED <<tpc, amount>>
             ELSE /\ amount' = r.val
                  /\ tpc' = "category"
                  /\ out' = Printed("Enter category: ")
    /\ UNCHANGED <<globals, frame, args, caller, expenses>>

\* Lines 128-142 and 23-36: one round of get_valid_category(): an empty
\* stripped line prompts again; otherwise add_expense appends the entry.
EnterCategory ==
    /\ tpc = "category"
    /\ \E line \in CategoryInputs :
          LET category == Strip(line)
          IN IF Len(category) = 0
             THEN /\ out' = Printed("Error: Category cannot be empty.")
                  /\ UNCHANGED <<tpc, expenses>>
             ELSE /\ expenses' = Append(expenses, [amount |-> amount, category |-> category])
                  /\ tpc' = "menu"
                  /\ out' = [Printed("added") EXCEPT !.total = amount]
    /\ UNCHANGED <<globals, frame, args, caller, amount>>

\* Lines 187-190: choice "2".
ListAll ==
    /\ tpc = "menu"
    /\ \E line \in ChoiceInputs : Strip(line) = OPTION_LIST
    /\ out' = [Printed("list") EXCEPT !.items = expenses]
    /\ UNCHANGED <<globals, frame, args, caller, expenses, tpc, amount>>

\* Lines 192-198: choice "3".
ShowTotal ==
    /\ tpc = "menu"
    /\ \E line \in ChoiceInputs : Strip(line) = OPTION_TOTAL
    /\ out' = [Printed("total") EXCEPT !.total = total_expenses(expenses),
                                       !.count = Len(expenses)]
    /\ UNCHANGED <<globals, frame, args, caller, expenses, tpc, amount>>

\* Lines 200-204: choice "4" with no expenses.
FilterNone ==
    /\ tpc = "menu"
    /\ \E line \in ChoiceInputs : Strip(line) = OPTION_FILTER
    /\ Len(expenses) = 0
    /\ out' = Printed("No expenses to filter.")
    /\ UNCHANGED <<globals, frame, args, caller, expenses, tpc, amount>>

\* Lines 200-211: choice "4", then the category to filter by.
Filter ==
    /\ tpc = "menu"
    /\ \E line \in ChoiceInputs : Strip(line) = OPTION_FILTER
    /\ Len(expenses) > 0
    /\ \E line \in CategoryInputs :
          out' = [Printed("filtered") EXCEPT
                     !.items = filter_expenses_by_category(expenses, Strip(line))]
    /\ UNCHANGED <<globals, frame, args, caller, expenses, tpc, amount>>

\* Lines 213-221: choice "5".
Exit ==
    /\ tpc = "menu"
    /\ \E line \in ChoiceInputs : Strip(line) = OPTION_EXIT
    /\ tpc' = "exited"
    /\ out' = [Printed("exit") EXCEPT !.count = Len(expenses),
                                      !.total = total_expenses(expenses)]
    /\ UNCHANGED <<globals, frame, args, caller, expenses, amount>>

\* Lines 223-225: any other choice.
InvalidChoice ==
    /\ tpc = "menu"
    /\ \E line \in ChoiceInputs :
          Strip(line) \notin {OPTION_ADD, OPTION_LIST, OPTION_TOTAL, OPTION_FILTER, OPTION_EXIT}
    /\ out' = Printed("Invalid choice.")
    /\ UNCHANGED <<globals, frame, args, caller, expenses, tpc, amount>>

\* Line 174: expenses = [], and the first menu.
InitTracker ==
    /\ InitGlobals
    /\ frame = [p \in {1} |-> NoFrame]
    /\ args = [p \in {1} |-> NoArgs]
    /\ caller = NoCaller
    /\ expenses = <<>>
    /\ tpc = "menu"
    /\ amount = NoFloat
    /\ out = NoOutput

NextTracker ==
    \/ ChooseAdd
    \/ EnterAmount
    \/ EnterCategory
    \/ ListAll
    \/ ShowTotal
    \/ FilterNone
    \/ Filter
    \/ Exit
    \/ InvalidChoice

SpecTracker == InitTracker /\ [][NextTracker]_vars

\* An amount greater than zero.
Positive(x) == (x.kind = "num" /\ x.n > 0) \/ (x.kind = "inf" /\ x.n > 0)

\* C10: every entry of the expenses list has an amount that is a positive
\* number and a category that is non-empty and stripped of whitespace.
C10_StoredData ==
    \A i \in 1..Len(expenses) :
        /\ Positive(expenses[i].amount)
        /\ Len(expenses[i].category) > 0
        /\ Strip(expenses[i].category) = expenses[i].category

====
